---- MODULE Spec2Model ----
(***************************************************************************)
(* Model of src/TMM_Class.py: the DBR class (constructor, MakeGrades,      *)
(* Simulate, SimulateParts) of the porous-DBR reflectance simulator.       *)
(*                                                                         *)
(* Numbers.  A Python/numpy float is modelled by an exact extended         *)
(* rational <<num, den>>: den > 0 and gcd(num, den) = 1 for a finite       *)
(* value, <<1,0>> for +inf, <<-1,0>> for -inf and <<0,0>> for nan (the     *)
(* values numpy produces, with a RuntimeWarning and no exception, when it  *)
(* divides by zero).  Rounding and signed zeros are not modelled.          *)
(*                                                                         *)
(* Refractive indices.  porosity_to_n takes a square root, which has no    *)
(* exact rational value; every entry of n_list is therefore held as the    *)
(* SQUARE of the index (np.sqrt is injective on [0, inf), so two entries   *)
(* are equal exactly when their squares are).  Idx(q) is the entry for a   *)
(* plain number q; NpSqrt(r) is the entry for np.sqrt(r).                  *)
(*                                                                         *)
(* Arrays.  The wavelength grids have 600 to 800 samples.  An array is held *)
(* as a descriptor: numpy.linspace(start, stop, num) by its three          *)
(* arguments, any other array by its items; ArrLen and ArrAt give the      *)
(* length and the elements.  Rnorm, built by one append per element of     *)
(* Wav, is held the same way.                                              *)
(*                                                                         *)
(* Attributes.  A Python attribute that has not been assigned yet is       *)
(* absent: db[s].has is the set of attributes assigned so far, and reading *)
(* one outside it raises AttributeError.                                   *)
(***************************************************************************)
EXTENDS Integers, Sequences, FiniteSets, TLC

VARIABLES db, last, graded, calls

vars == <<db, last, graded, calls>>

(* ------------------------------ bounds -------------------------------- *)

\* NLayers of a structure ranges over 0..MaxLayers.
MaxLayers == 2
\* NGrades passed to MakeGrades ranges over -MaxGrades..MaxGrades.
MaxGrades == 3
\* Order passed to MakeGrades ranges over 0..MaxOrder.
MaxOrder == 1
\* A session makes at most MaxCalls calls.
MaxCalls == 3

(* -------------------------- program constants ------------------------- *)

GridLo == 200
GridHi == 1000
GridNum == 800
Clip == 1000
SpanTop == 1000
UmToNm == 1000

(* --------------------------- float arithmetic ------------------------- *)

Abs(x) == IF x < 0 THEN -x ELSE x

Sign(x) == IF x < 0 THEN -1 ELSE IF x > 0 THEN 1 ELSE 0

RECURSIVE GCD(_, _)
GCD(a, b) == IF b = 0 THEN a ELSE GCD(b, a % b)

\* The float num/den, normalised.
Q(num, den) ==
    IF den = 0 THEN <<Sign(num), 0>>
    ELSE LET g == GCD(Abs(num), Abs(den))
             s == Sign(den)
         IN  <<(s * num) \div g, (s * den) \div g>>

QInt(k) == <<k, 1>>

Inf == <<1, 0>>

NaN == <<0, 0>>

IsFinite(q) == q[2] # 0

QNeg(a) == <<-a[1], a[2]>>

QMul(a, b) == Q(a[1] * b[1], a[2] * b[2])

QDiv(a, b) ==
    LET bb == IF b[1] < 0 THEN <<-b[1], -b[2]>> ELSE b
    IN  Q(a[1] * bb[2], a[2] * bb[1])

QAdd(a, b) ==
    IF a = NaN \/ b = NaN THEN NaN
    ELSE IF ~IsFinite(a) THEN (IF ~IsFinite(b) /\ b # a THEN NaN ELSE a)
    ELSE IF ~IsFinite(b) THEN b
    ELSE Q(a[1] * b[2] + b[1] * a[2], a[2] * b[2])

QSub(a, b) == QAdd(a, QNeg(b))

\* a <= b, false when either is nan (as IEEE comparisons are).
QLeq(a, b) ==
    /\ a # NaN
    /\ b # NaN
    /\ IF IsFinite(a) /\ IsFinite(b) THEN a[1] * b[2] <= b[1] * a[2]
       ELSE a = b \/ a = QNeg(Inf) \/ b = Inf

QMin(a, b) == IF QLeq(b, a) THEN b ELSE a

\* Python int(): truncation toward zero.
PyInt(q) == IF q[1] >= 0 THEN q[1] \div q[2] ELSE -((-q[1]) \div q[2])

RECURSIVE Pow(_, _)
Pow(b, e) == IF e = 0 THEN 1 ELSE b * Pow(b, e - 1)

RECURSIVE Sum(_)
Sum(s) == IF s = <<>> THEN 0 ELSE Head(s) + Sum(Tail(s))

RECURSIVE QSum(_)
QSum(s) == IF s = <<>> THEN QInt(0) ELSE QAdd(Head(s), QSum(Tail(s)))

RECURSIVE SeqMin(_)
SeqMin(s) == IF Len(s) = 1 THEN s[1] ELSE QMin(s[1], SeqMin(Tail(s)))

\* Python list repetition, lst * k.
RECURSIVE Times(_, _)
Times(lst, k) == IF k <= 0 THEN <<>> ELSE lst \o Times(lst, k - 1)

\* An array, or a list, given by its items.
NdArray(items) ==
    [lin |-> FALSE, start |-> QInt(0), stop |-> QInt(0), num |-> Len(items),
     items |-> items]

\* numpy.linspace(start, stop, num) for num >= 0: num samples, the first at
\* start, evenly spaced, the last at stop.
Linspace(start, stop, num) ==
    IF num = 0 THEN NdArray(<<>>)
    ELSE IF num = 1 THEN NdArray(<<start>>)
    ELSE [lin |-> TRUE, start |-> start, stop |-> stop, num |-> num, items |-> <<>>]

ArrLen(a) == a.num

\* The i-th element, 1 <= i <= ArrLen(a).
ArrAt(a, i) ==
    IF ~a.lin THEN a.items[i]
    ELSE IF i = a.num THEN a.stop
    ELSE QAdd(a.start, QDiv(QMul(QInt(i - 1), QSub(a.stop, a.start)),
                            QInt(a.num - 1)))

(* ------------------------------ indices ------------------------------- *)

\* The n_list entry of the plain number q (held as its square).
Idx(q) == QMul(q, q)

\* The n_list entry of np.sqrt(r): nan for a negative or nan radicand.
NpSqrt(r) == IF r = NaN \/ r[1] < 0 THEN NaN ELSE r

\* porosity_to_n on one porosity value.
porosity_to_n(porosity, GaN_n, air_n) ==
    NpSqrt(QAdd(QMul(QMul(QSub(QInt(1), porosity), GaN_n), GaN_n),
                QMul(QMul(porosity, air_n), air_n)))

\* porosity_to_n on an array of porosities, .tolist().
porosity_to_n_list(Por, GaN_n, air_n) ==
    [k \in 1..Len(Por) |-> porosity_to_n(Por[k], GaN_n, air_n)]

(* --------------------------- the environment -------------------------- *)

Structs == {"Bot", "Top"}

\* The n_File argument False (a constant index is used).
PyFalse == "False"

\* The dispersion tables on disk: '<name>.csv', rows of <<wavelength in
\* micrometres, index>>, ascending in wavelength, header row skipped.
Files ==
    [GaN_300_700   |-> << <<Q(3, 10), Q(13, 5)>>, <<Q(1, 2), Q(12, 5)>>,
                          <<Q(7, 10), Q(23, 10)>> >>,
     GaN_400_1200  |-> << <<Q(2, 5), Q(5, 2)>>, <<Q(4, 5), Q(12, 5)>>,
                          <<Q(6, 5), Q(23, 10)>> >>,
     GaN_1000_1500 |-> << <<QInt(1), Q(23, 10)>>, <<Q(3, 2), Q(9, 4)>> >>,
     GaN_1200_1600 |-> << <<Q(6, 5), Q(23, 10)>>, <<Q(8, 5), Q(9, 4)>> >>]

FileNames == DOMAIN Files

\* Values of the n_File argument: False, a table on disk, a name with no file.
NFileArgs == {PyFalse} \cup FileNames \cup {"NoSuchFile"}

\* Period and T_Rat of the two structures: Bot has T_Por 25 and T_GaN 75, Top
\* has T_Por 40 and T_GaN 40.
PeriodOf(s) == IF s = "Bot" THEN QInt(100) ELSE QInt(80)
TRatOf(s) == IF s = "Bot" THEN Q(1, 4) ELSE Q(1, 2)
PhiArgs == {QInt(0), Q(1, 4), Q(1, 2)}
TTempArgs == {QInt(0), QInt(3400)}
FactorArgs == {-1, 0, 1}
NSub == Q(44, 25)
NSpace == QInt(1)
\* The default of Simulate's and SimulateParts' parameter n, 2.38.
DefaultN == Q(119, 50)

(* ------------------------------- errors ------------------------------- *)

NoErr == "none"
ErrOdd == "ValueError: NGrades must be odd!"
ErrNegDim == "ValueError: negative dimensions are not allowed"
ErrAttr == "AttributeError"
ErrNoFile == "OSError: file not found"
ErrNumSamples == "ValueError: Number of samples must be non-negative"
ErrStack == "ValueError: array dimensions must match"

(* ----------------------------- DBR.__init__ --------------------------- *)

\* A constructor that also initialised the profile to empty lists, as it
\* does nPor: a simulation before any grading would then find its attributes.
DBRInitGraded(Period, T_Rat, Phi, NLayers, T_Temp) ==
    [Period |-> Period, T_Rat |-> T_Rat,
     T_Por |-> QMul(T_Rat, Period),
     T_GaN |-> QSub(Period, QMul(T_Rat, Period)),
     Phi |-> Phi, NLayers |-> NLayers, T_Temp |-> T_Temp,
     nPor |-> 0,
     has |-> {"Por_Graded", "T_Graded"},
     Por_Graded |-> <<>>, T_Graded |-> <<>>,
     Wav |-> NdArray(<<>>), d_list |-> <<>>, Rnorm |-> NdArray(<<>>),
     n_list |-> <<>>,
     n_File |-> ""]

DBRInit(Period, T_Rat, Phi, NLayers, T_Temp) ==
    [Period |-> Period, T_Rat |-> T_Rat,
     T_Por |-> QMul(T_Rat, Period),
     T_GaN |-> QSub(Period, QMul(T_Rat, Period)),
     Phi |-> Phi, NLayers |-> NLayers, T_Temp |-> T_Temp,
     nPor |-> 0,
     has |-> {},
     Por_Graded |-> <<>>, T_Graded |-> <<>>,
     Wav |-> NdArray(<<>>), d_list |-> <<>>, Rnorm |-> NdArray(<<>>),
     n_list |-> <<>>,
     n_File |-> ""]

\* The record of the most recent call: the operation, its receiver, the
\* arguments the outcome depends on, and the exception it raised (NoErr when
\* it returned).
Call(op, self, top, NGrades, Phi, n_File, err) ==
    [op |-> op, self |-> self, top |-> top, NGrades |-> NGrades, Phi |-> Phi,
     n_File |-> n_File, err |-> err]

\* The structures of a simulation session: Bot is simulated, alone or under
\* Top; each is constructed with the porosity it is later graded with.
Init ==
    /\ \E lB \in 0..MaxLayers, lT \in 0..MaxLayers, tB \in TTempArgs :
          db = [s \in Structs |->
                   IF s = "Bot" THEN DBRInit(PeriodOf(s), TRatOf(s), Q(1, 4), lB, tB)
                   ELSE DBRInit(PeriodOf(s), TRatOf(s), Q(1, 2), lT, QInt(0))]
    /\ last = Call("__init__", "", "", 0, QInt(0), PyFalse, NoErr)
    /\ graded = {}
    /\ calls = 0

\* The structures of a grading session: any porosity, zero included.
InitGrades ==
    /\ \E pB \in PhiArgs, pT \in PhiArgs :
          db = [s \in Structs |->
                   IF s = "Bot" THEN DBRInit(PeriodOf(s), TRatOf(s), pB, MaxLayers, QInt(3400))
                   ELSE DBRInit(PeriodOf(s), TRatOf(s), pT, MaxLayers, QInt(0))]
    /\ last = Call("__init__", "", "", 0, QInt(0), PyFalse, NoErr)
    /\ graded = {}
    /\ calls = 0

(* ---------------------------- DBR.MakeGrades -------------------------- *)

halfN(NGrades) == (NGrades + 1) \div 2

\* np.fromfunction(lambda i,j: 1+Factor*j**Order, (1,halfN), dtype=int)
Por_Grad1(NGrades, Factor, Order) ==
    [k \in 1..halfN(NGrades) |-> 1 + Factor * Pow(k - 1, Order)]

\* np.fromfunction(lambda i,j: 1+Factor*(halfN-j-2)**Order, (1,halfN-1), dtype=int)
Por_Grad2(NGrades, Factor, Order) ==
    [k \in 1..(halfN(NGrades) - 1) |->
        1 + Factor * Pow(halfN(NGrades) - (k - 1) - 2, Order)]

Por_Grad(NGrades, Factor, Order) ==
    Por_Grad1(NGrades, Factor, Order) \o Por_Grad2(NGrades, Factor, Order)

\* The exception MakeGrades raises before it stores anything, or NoErr.
MakeGradesErr(NGrades) ==
    IF NGrades % 2 = 0 THEN ErrOdd
    ELSE IF halfN(NGrades) < 0 \/ halfN(NGrades) - 1 < 0 THEN ErrNegDim
    ELSE NoErr

\* The porosity the normalisation divides by.
NormPhi(d, Phi) == d.Phi

\* a = np.sum(Por_Grad)/(NGrades*self.Phi)
NormA(d, raw, NGrades, Phi) ==
    QDiv(QInt(Sum(raw)), QMul(QInt(NGrades), NormPhi(d, Phi)))

\* self.Por_Graded = Por_Grad/a
Por_Graded(d, NGrades, Factor, Order, Phi) ==
    LET raw == Por_Grad(NGrades, Factor, Order)
        a == NormA(d, raw, NGrades, Phi)
    IN  [k \in 1..Len(raw) |-> QDiv(QInt(raw[k]), a)]

\* self.T_Graded = [self.T_Por/NGrades]*NGrades
T_Graded(d, NGrades) == Times(<<QDiv(d.T_Por, QInt(NGrades))>>, NGrades)

MakeGrades(self, NGrades, Factor, Order, Phi) ==
    LET err == MakeGradesErr(NGrades) IN
    /\ last' = Call("MakeGrades", self, "", NGrades, Phi, PyFalse, err)
    /\ IF err # NoErr
       THEN UNCHANGED <<db, graded>>
       ELSE /\ db' = [db EXCEPT ![self] =
                        [@ EXCEPT !.Por_Graded =
                                      Por_Graded(db[self], NGrades, Factor, Order, Phi),
                                  !.T_Graded = T_Graded(db[self], NGrades),
                                  !.has = @ \cup {"Por_Graded", "T_Graded"}]]
            /\ graded' = graded \cup {self}

(* ------------------------- the wavelength grids ----------------------- *)

\* self.Wav=linspace(200,1000,800)
ConstWav == Linspace(QInt(GridLo), QInt(GridHi), GridNum)

\* The first column of the table, times 1000 (micrometres to nanometres).
TableNm(f) ==
    NdArray([k \in 1..Len(Files[f]) |-> QMul(Files[f][k][1], QInt(UmToNm))])

\* The second column of the table.
TableN(f) == [k \in 1..Len(Files[f]) |-> Files[f][k][2]]

\* num=int((1000-min(self.Wav)))
NumSamples(wavNm) == PyInt(QSub(QInt(SpanTop), SeqMin(wavNm.items)))

\* linspace(min(self.Wav),min(1000,self.Wav[-1]),num=...), for num >= 0.
TableWav(wavNm) ==
    Linspace(SeqMin(wavNm.items), QMin(QInt(Clip), ArrAt(wavNm, ArrLen(wavNm))),
             NumSamples(wavNm))

\* Whether x lies in the domain of interp1d(xs, .).
InRange(xs, x) == QLeq(xs[1], x) /\ QLeq(x, xs[Len(xs)])

\* interp1d(xs, ys)(x), linear, for x in the domain.
Interp(xs, ys, x) ==
    LET k == CHOOSE j \in 1..(Len(xs) - 1) : QLeq(xs[j], x) /\ QLeq(x, xs[j + 1])
    IN  QAdd(ys[k], QDiv(QMul(QSub(ys[k + 1], ys[k]), QSub(x, xs[k])),
                         QSub(xs[k + 1], xs[k])))

\* n_func(Lambda) for the table f.
n_func(f, Lambda) == Interp(TableNm(f).items, TableN(f), Lambda)

(* ------------------------------ the stack ----------------------------- *)

\* Repeat = [self.T_GaN] + self.T_Graded
RepeatD(d) == <<d.T_GaN>> \o d.T_Graded

\* Repeat = [n] + n_Por
RepeatN(d, n, n_Space) == <<Idx(n)>> \o porosity_to_n_list(d.Por_Graded, n, n_Space)

\* A tail of d_list that held the template entry only for T_Temp > 0.
TailDIfPositive(d) == IF d.T_Temp[1] > 0 THEN <<d.T_Temp>> \o <<Inf>> ELSE <<Inf>>

\* The tail of d_list: [self.T_Temp] + [inf]
TailD(d) == <<d.T_Temp>> \o <<Inf>>

\* The tail of n_list: [n] + [n_Sub]
TailN(n, n_Sub) == <<Idx(n)>> \o <<Idx(n_Sub)>>

\* Simulate: self.d_list = [inf]+ Repeat*self.NLayers + [self.T_Temp] + [inf]
DList(d) == <<Inf>> \o Times(RepeatD(d), d.NLayers) \o TailD(d)

\* Simulate: self.n_list = [1]+ Repeat*self.NLayers +[n] + [n_Sub]
NList(d, n, n_Space, n_Sub) ==
    <<Idx(QInt(1))>> \o Times(RepeatN(d, n, n_Space), d.NLayers) \o TailN(n, n_Sub)

\* The top structure's block in SimulateParts: RepeatTop*TopDBR.NLayers
TopBlockD(t) == Times(RepeatD(t), t.NLayers)

\* A top block that left out the repeat count: RepeatTop once.
TopBlockNOnce(t, n, n_Space) == RepeatN(t, n, n_Space)

TopBlockN(t, n, n_Space) == Times(RepeatN(t, n, n_Space), t.NLayers)

\* SimulateParts: self.d_list = [inf]+ RepeatTop*TopDBR.NLayers
\*                              + Repeat*self.NLayers + [self.T_Temp] + [inf]
DListParts(d, t) ==
    <<Inf>> \o TopBlockD(t) \o Times(RepeatD(d), d.NLayers) \o TailD(d)

\* An n_list with the two blocks in the other order, the primary structure's
\* block first.
NListPartsSwapped(d, t, n, n_Space, n_Sub) ==
    <<Idx(QInt(1))>> \o Times(RepeatN(d, n, n_Space), d.NLayers)
        \o TopBlockN(t, n, n_Space) \o TailN(n, n_Sub)

\* SimulateParts: self.n_list = [1] + RepeatTop*TopDBR.NLayers
\*                              + Repeat*self.NLayers +[n] + [n_Sub]
NListParts(d, t, n, n_Space, n_Sub) ==
    <<Idx(QInt(1))>> \o TopBlockN(t, n, n_Space)
        \o Times(RepeatN(d, n, n_Space), d.NLayers) \o TailN(n, n_Sub)

\* coh_tmm('s', self.n_list, self.d_list, 0, Lambda)['R'], the external
\* solver: total on the stacks built here.  A reflectance is identified by the
\* wavelength it was solved for.
coh_tmm_R(Lambda) == Lambda

\* The list the loop 'for Lambda in self.Wav: self.Rnorm.append(...)' builds:
\* one result per element of Wav, in order.
RnormOf(Wav) ==
    IF Wav.lin
    THEN [Wav EXCEPT !.start = coh_tmm_R(Wav.start), !.stop = coh_tmm_R(Wav.stop)]
    ELSE NdArray([i \in 1..Len(Wav.items) |-> coh_tmm_R(Wav.items[i])])

\* The attributes a stack-building run assigns after the grid.
Assigned(has) == has \cup {"d_list", "Rnorm"}

(* ----------------------------- DBR.Simulate --------------------------- *)

\* A dispersion-mode run appends one graded-index snapshot per wavelength to
\* nPor; only their number is held.

\* The constant-index branch: the structure after the call, and the error.
SimulateConst(d, n_Sub, n_Space, n) ==
    LET d1 == [d EXCEPT !.Wav = ConstWav, !.has = @ \cup {"Wav"}] IN
    IF "T_Graded" \notin d.has THEN [d |-> d1, err |-> ErrAttr]
    ELSE LET d2 == [d1 EXCEPT !.d_list = DList(d1), !.Rnorm = NdArray(<<>>),
                              !.has = Assigned(@)] IN
         IF "Por_Graded" \notin d.has THEN [d |-> d2, err |-> ErrAttr]
         ELSE [d |-> [d2 EXCEPT !.n_list = NList(d2, n, n_Space, n_Sub),
                                !.Rnorm = RnormOf(d2.Wav),
                                !.has = @ \cup {"n_list"}],
               err |-> NoErr]

\* The dispersion-table branch.
SimulateFile(d, n_Sub, n_Space, n_File) ==
    LET d1 == [d EXCEPT !.n_File = n_File, !.has = @ \cup {"n_File"}] IN
    IF n_File \notin FileNames THEN [d |-> d1, err |-> ErrNoFile]
    ELSE LET d2 == [d1 EXCEPT !.Wav = TableNm(n_File), !.has = @ \cup {"Wav"}] IN
         IF NumSamples(d2.Wav) < 0 THEN [d |-> d2, err |-> ErrNumSamples]
         ELSE LET d3 == [d2 EXCEPT !.Wav = TableWav(d2.Wav)] IN
              IF "T_Graded" \notin d.has THEN [d |-> d3, err |-> ErrAttr]
              ELSE LET d4 == [d3 EXCEPT !.d_list = DList(d3), !.Rnorm = NdArray(<<>>),
                                        !.has = Assigned(@)] IN
                   IF ArrLen(d4.Wav) = 0 THEN [d |-> d4, err |-> NoErr]
                   ELSE IF "Por_Graded" \notin d.has THEN [d |-> d4, err |-> ErrAttr]
                   ELSE LET n == n_func(n_File, ArrAt(d4.Wav, ArrLen(d4.Wav))) IN
                        [d |-> [d4 EXCEPT !.n_list = NList(d4, n, n_Space, n_Sub),
                                          !.Rnorm = RnormOf(d4.Wav),
                                          !.nPor = @ + ArrLen(d4.Wav),
                                          !.has = @ \cup {"n_list"}],
                         err |-> NoErr]

SimulateOutcome(d, n_Sub, n_Space, n_File, n) ==
    IF n_File = PyFalse THEN SimulateConst(d, n_Sub, n_Space, n)
    ELSE SimulateFile(d, n_Sub, n_Space, n_File)

Simulate(self, n_Sub, n_Space, n_File, n) ==
    \E out \in {SimulateOutcome(db[self], n_Sub, n_Space, n_File, n)} :
        /\ db' = [db EXCEPT ![self] = out.d]
        /\ last' = Call("Simulate", self, "", 0, QInt(0), n_File, out.err)
        /\ UNCHANGED graded

(* --------------------------- DBR.SimulateParts ------------------------ *)

\* The constant-index branch: the structure after the call, the error, and
\* the number of snapshots appended to TopDBR.nPor.
SimulatePartsConst(d, t, n_Sub, n_Space, n) ==
    LET d1 == [d EXCEPT !.Wav = ConstWav, !.has = @ \cup {"Wav"}] IN
    IF "T_Graded" \notin d.has \/ "T_Graded" \notin t.has
    THEN [d |-> d1, err |-> ErrAttr, top |-> 0]
    ELSE LET d2 == [d1 EXCEPT !.d_list = DListParts(d1, t), !.Rnorm = NdArray(<<>>),
                              !.has = Assigned(@)] IN
         IF "Por_Graded" \notin d.has \/ "Por_Graded" \notin t.has
         THEN [d |-> d2, err |-> ErrAttr, top |-> 0]
         ELSE [d |-> [d2 EXCEPT !.n_list = NListParts(d2, t, n, n_Space, n_Sub),
                                !.Rnorm = RnormOf(d2.Wav),
                                !.has = @ \cup {"n_list"}],
               err |-> NoErr, top |-> 0]

\* The dispersion-table branch.
SimulatePartsFile(d, t, n_Sub, n_Space, n_File) ==
    LET d1 == [d EXCEPT !.n_File = n_File, !.has = @ \cup {"n_File"}] IN
    IF n_File \notin FileNames THEN [d |-> d1, err |-> ErrNoFile, top |-> 0]
    ELSE LET d2 == [d1 EXCEPT !.Wav = TableNm(n_File), !.has = @ \cup {"Wav"}] IN
         IF NumSamples(d2.Wav) < 0 THEN [d |-> d2, err |-> ErrNumSamples, top |-> 0]
         ELSE LET d3 == [d2 EXCEPT !.Wav = TableWav(d2.Wav)] IN
              IF "T_Graded" \notin d.has \/ "T_Graded" \notin t.has
              THEN [d |-> d3, err |-> ErrAttr, top |-> 0]
              ELSE LET d4 == [d3 EXCEPT !.d_list = DListParts(d3, t), !.Rnorm = NdArray(<<>>),
                                        !.has = Assigned(@)] IN
                   IF ArrLen(d4.Wav) = 0 THEN [d |-> d4, err |-> NoErr, top |-> 0]
                   ELSE IF "Por_Graded" \notin d.has
                   THEN [d |-> d4, err |-> ErrAttr, top |-> 0]
                   \* the first pass appends to self.nPor before it reads
                   \* TopDBR.Por_Graded
                   ELSE IF "Por_Graded" \notin t.has
                   THEN [d |-> [d4 EXCEPT !.nPor = @ + 1], err |-> ErrAttr, top |-> 0]
                   ELSE LET n == n_func(n_File, ArrAt(d4.Wav, ArrLen(d4.Wav))) IN
                        [d |-> [d4 EXCEPT !.n_list =
                                              NListParts(d4, t, n, n_Space, n_Sub),
                                          !.Rnorm = RnormOf(d4.Wav),
                                          !.nPor = @ + ArrLen(d4.Wav),
                                          !.has = @ \cup {"n_list"}],
                         err |-> NoErr, top |-> ArrLen(d4.Wav)]

SimulatePartsOutcome(d, t, n_Sub, n_Space, n_File, n) ==
    IF n_File = PyFalse THEN SimulatePartsConst(d, t, n_Sub, n_Space, n)
    ELSE SimulatePartsFile(d, t, n_Sub, n_Space, n_File)

SimulateParts(self, n_Sub, n_Space, n_File, TopDBR, n) ==
    \E out \in {SimulatePartsOutcome(db[self], db[TopDBR], n_Sub, n_Space, n_File, n)} :
        /\ self # TopDBR   \* the session passes another structure as TopDBR
        /\ db' = [db EXCEPT ![self] = out.d, ![TopDBR].nPor = @ + out.top]
        /\ last' = Call("SimulateParts", self, TopDBR, 0, QInt(0), n_File, out.err)
        /\ UNCHANGED graded

(* ----------------------------- DBR.WriteData -------------------------- *)

\* np.column_stack((self.Wav, self.Rnorm)) needs both attributes and equal
\* lengths; the file written is not held.
WriteDataErr(d) ==
    IF "Wav" \notin d.has \/ "Rnorm" \notin d.has THEN ErrAttr
    ELSE IF ArrLen(d.Wav) # ArrLen(d.Rnorm) THEN ErrStack
    ELSE NoErr

WriteData(self) ==
    /\ last' = Call("WriteData", self, "", 0, QInt(0), PyFalse, WriteDataErr(db[self]))
    /\ UNCHANGED <<db, graded>>

(* --------------------------- the specification ------------------------ *)

\* One more call of a session of at most k calls.
Within(k) == calls < k /\ calls' = calls + 1

\* A simulation session of at most k calls: gradings as the example script
\* calls them (the porosity passed is the one the structure was constructed
\* with), and every simulation and export of Bot.
Session(k) ==
    \/ \E s \in Structs, NGrades \in 1..MaxGrades, Factor \in {0, 1} :
          Within(k) /\ MakeGrades(s, NGrades, Factor, 1, db[s].Phi)
    \/ \E f \in NFileArgs :
          Within(k) /\ Simulate("Bot", NSub, NSpace, f, DefaultN)
    \/ \E f \in NFileArgs :
          Within(k) /\ SimulateParts("Bot", NSub, NSpace, f, "Top", DefaultN)
    \/ Within(k) /\ WriteData("Bot")

Next == Session(MaxCalls)

Spec == Init /\ [][Next]_vars

NextLong == Session(MaxCalls + 1)

\* Sessions one call longer.
SpecLong == Init /\ [][NextLong]_vars

\* A grading session: MakeGrades with any arguments.
NextGrades ==
    \E s \in Structs, NGrades \in (-MaxGrades)..MaxGrades, Factor \in FactorArgs,
       Order \in 0..MaxOrder, Phi \in PhiArgs :
       Within(MaxCalls) /\ MakeGrades(s, NGrades, Factor, Order, Phi)

SpecGrades == InitGrades /\ [][NextGrades]_vars

(* ------------------------------- claims ------------------------------- *)

SimOps == {"Simulate", "SimulateParts"}

\* The last call was a simulation that returned.
Completed == last.op \in SimOps /\ last.err = NoErr

\* The last call was a simulation that returned after at least one solver call.
Solved == Completed /\ ArrLen(db[last.self].Wav) > 0

\* The last call was a MakeGrades with a valid grade count.
ValidGrades(c) == c.op = "MakeGrades" /\ c.NGrades % 2 = 1 /\ c.NGrades >= 1

\* The non-porous index of the last solver call of the last simulation.
LastN ==
    IF last.n_File = PyFalse THEN DefaultN
    ELSE n_func(last.n_File,
                ArrAt(db[last.self].Wav, ArrLen(db[last.self].Wav)))

\* The length of a structure's interior block.
BlockLen(d) == d.NLayers * (1 + Len(d.T_Graded))

\* The length of the top structure's block in the last simulation.
TopLen == IF last.op = "SimulateParts" THEN BlockLen(db[last.top]) ELSE 0

\* Positions from+1 .. from+BlockLen(d) of the two lists hold d's block: the
\* non-porous layer, then sub-layers 0..NGrades-1, repeated.
BlockAt(nl, dl, from, d, n) ==
    \A i \in 1..BlockLen(d) :
        LET o == (i - 1) % (1 + Len(d.T_Graded)) IN
        IF o = 0
        THEN nl[from + i] = Idx(n) /\ dl[from + i] = d.T_GaN
        ELSE /\ nl[from + i] = porosity_to_n(d.Por_Graded[o], n, NSpace)
             /\ dl[from + i] = d.T_Graded[o]

\* C1: after every completed Simulate or SimulateParts call the stored n_list
\* and d_list have the same length, and with no repeats (NLayers = 0, and a
\* top repeat count of 0) both hold just the two semi-infinite entries and
\* the template entry.
C1_EqualLengths ==
    (Completed /\ "n_list" \in db[last.self].has) =>
        LET d == db[last.self] IN
        /\ Len(d.n_list) = Len(d.d_list)
        /\ (d.NLayers = 0 /\ TopLen = 0) => (Len(d.n_list) = 3 /\ Len(d.d_list) = 3)

\* C2: after a MakeGrades call with an odd NGrades >= 1 and a porosity
\* Phi > 0, Por_Graded has NGrades values that sum to NGrades * Phi, the Phi
\* passed to the call.
C2_AverageIsPassedPhi ==
    (ValidGrades(last) /\ last.err = NoErr /\ last.Phi[1] > 0) =>
        LET d == db[last.self] IN
        /\ Len(d.Por_Graded) = last.NGrades
        /\ QSum(d.Por_Graded) = QMul(QInt(last.NGrades), last.Phi)

\* C3: a MakeGrades call whose NGrades is even or less than 1 raises the
\* explicit "NGrades must be odd!" error and leaves every stored profile as
\* it was.
C3_InvalidGradeCountRejected ==
    [][(last'.op = "MakeGrades" /\ calls' = calls + 1
          /\ (last'.NGrades % 2 = 0 \/ last'.NGrades < 1))
       => (last'.err = ErrOdd /\ db' = db)]_vars

ErrZeroPhi == "DivisionByZeroPorosity"

\* C4: a MakeGrades call with a valid grade count and a target porosity of 0
\* raises a division-by-zero-porosity error and stores no profile.
C4_ZeroPorosityRaises ==
    [][(ValidGrades(last') /\ calls' = calls + 1
          /\ last'.Phi = QInt(0) /\ db[last'.self].Phi = QInt(0))
       => (last'.err = ErrZeroPhi /\ db' = db)]_vars

\* C5: a Simulate or SimulateParts call returns only if MakeGrades returned
\* earlier on the structure (and, for SimulateParts, on the top structure
\* too); otherwise it raises and leaves the stored reflectances as they were.
C5_SimulateNeedsGrades ==
    [][(last'.op \in SimOps /\ calls' = calls + 1) =>
         LET s == last'.self
             ready == /\ s \in graded
                      /\ last'.op = "SimulateParts" => last'.top \in graded
         IN  /\ last'.err = NoErr => ready
             /\ ~ready => /\ last'.err # NoErr
                          /\ db'[s].Rnorm = db[s].Rnorm
                          /\ ("Rnorm" \in db'[s].has) = ("Rnorm" \in db[s].has)]_vars

\* Witness of C5: a SimulateParts call returned with reflectances stored.
C5_Witness ==
    /\ last.op = "SimulateParts"
    /\ last.err = NoErr
    /\ ArrLen(db[last.self].Rnorm) > 0
    /\ graded = Structs

RECURSIVE SeqMax(_)
SeqMax(s) == IF Len(s) = 1 THEN s[1] ELSE IF QLeq(SeqMax(Tail(s)), s[1]) THEN s[1]
                                          ELSE SeqMax(Tail(s))

\* C6: after a completed dispersion-mode run the grid starts at the table's
\* smallest wavelength (nm), ends at min(1000, the table's largest), has
\* (upper - lower) + 1 samples (1 nm steps), and lies in the table's domain.
C6_GridOneNmSteps ==
    (Completed /\ last.n_File # PyFalse) =>
        LET xs == TableNm(last.n_File).items
            lower == SeqMin(xs)
            upper == QMin(QInt(1000), SeqMax(xs))
            w == db[last.self].Wav
        IN  /\ ArrLen(w) = PyInt(QSub(upper, lower)) + 1
            /\ ArrAt(w, 1) = lower
            /\ ArrAt(w, ArrLen(w)) = upper
            /\ \A i \in 1..ArrLen(w) : InRange(xs, ArrAt(w, i))

\* C7: in every stack a simulation hands to the solver, n_list and d_list
\* are aligned and ordered from the incidence side: the semi-infinite
\* incidence entry; for SimulateParts the top structure's block, with the
\* top's thicknesses and porosities; the primary structure's block; the
\* template; the semi-infinite substrate.
C7_StackLayout ==
    Solved =>
        LET d == db[last.self]
            L == 1 + TopLen + BlockLen(d) + 2
        IN  /\ Len(d.n_list) = L
            /\ Len(d.d_list) = L
            /\ d.n_list[1] = Idx(QInt(1)) /\ d.d_list[1] = Inf
            /\ last.op = "SimulateParts" =>
                   BlockAt(d.n_list, d.d_list, 1, db[last.top], LastN)
            /\ BlockAt(d.n_list, d.d_list, 1 + TopLen, d, LastN)
            /\ d.n_list[L - 1] = Idx(LastN) /\ d.d_list[L - 1] = d.T_Temp
            /\ d.n_list[L] = Idx(NSub) /\ d.d_list[L] = Inf

\* Witness of C7: a SimulateParts run over two structures, each repeated at
\* least twice, of different layer thicknesses and graded with different
\* grade counts, the bottom one with more than one sub-layer.
C7_Witness ==
    /\ last.op = "SimulateParts"
    /\ Solved
    /\ db["Bot"].NLayers >= 2
    /\ db["Top"].NLayers >= 2
    /\ db["Bot"].T_GaN # db["Top"].T_GaN
    /\ db["Bot"].T_Graded[1] # db["Top"].T_Graded[1]
    /\ Len(db["Bot"].T_Graded) > 1
    /\ Len(db["Bot"].T_Graded) # Len(db["Top"].T_Graded)

\* C8: a SimulateParts call under a top structure with repeat count 0 returns
\* with the n_list, d_list, wavelength grid and reflectances that Simulate
\* with the same arguments builds on the bottom structure alone.
C8_ZeroTopIsSimulate ==
    [][(last'.op = "SimulateParts" /\ calls' = calls + 1 /\ last'.err = NoErr
          /\ db[last'.top].NLayers = 0)
       => LET s == last'.self
              r == SimulateOutcome(db[s], NSub, NSpace, last'.n_File, DefaultN)
          IN  /\ r.err = NoErr
              /\ db'[s].n_list = r.d.n_list
              /\ db'[s].d_list = r.d.d_list
              /\ db'[s].Wav = r.d.Wav
              /\ db'[s].Rnorm = r.d.Rnorm
              /\ db'[s].has = r.d.has]_vars

\* Witness of C8: a SimulateParts run of a repeated bottom structure under a
\* top structure with repeat count 0.
C8_Witness ==
    /\ last.op = "SimulateParts"
    /\ Solved
    /\ db["Top"].NLayers = 0
    /\ db["Bot"].NLayers >= 1

\* C9 as stated: the stack holds a template entry before the substrate entry
\* exactly when T_Temp > 0; with T_Temp = 0 the substrate entry follows the
\* interior block directly.
C9_TemplateOnlyIfPositive ==
    Completed =>
        LET d == db[last.self]
            L0 == 1 + TopLen + BlockLen(d)
        IN  IF d.T_Temp[1] > 0
            THEN Len(d.d_list) = L0 + 2 /\ d.d_list[L0 + 1] = d.T_Temp
            ELSE Len(d.d_list) = L0 + 1 /\ d.d_list[L0 + 1] = Inf

\* C9 as amended: every stack holds a template entry (thickness T_Temp, the
\* non-porous index) between the interior block and the substrate entry,
\* whatever T_Temp is; with T_Temp = 0 it is a layer of thickness 0.
C9_TemplateAlways ==
    Completed =>
        LET d == db[last.self]
            L0 == 1 + TopLen + BlockLen(d)
        IN  /\ Len(d.d_list) = L0 + 2
            /\ d.d_list[L0 + 1] = d.T_Temp
            /\ d.d_list[L0 + 2] = Inf
            /\ Solved => /\ Len(d.n_list) = L0 + 2
                         /\ d.n_list[L0 + 1] = Idx(LastN)
                         /\ d.n_list[L0 + 2] = Idx(NSub)

\* Witness of C9: a run of a repeated structure whose template thickness is 0.
C9_Witness ==
    /\ Solved
    /\ db[last.self].T_Temp = QInt(0)
    /\ db[last.self].NLayers >= 1
    /\ db[last.self].d_list[Len(db[last.self].d_list) - 1] = QInt(0)

\* C10: in every reachable state, failed calls and mode switches included,
\* a structure's Wav and Rnorm, when both are present, have the same length,
\* and each reflectance is the solver's result for the wavelength at its
\* position.
C10_WavRnormAligned ==
    \A s \in Structs :
        ("Wav" \in db[s].has /\ "Rnorm" \in db[s].has) =>
            /\ ArrLen(db[s].Wav) = ArrLen(db[s].Rnorm)
            /\ db[s].Rnorm = RnormOf(db[s].Wav)

====
